---------------------------- MODULE Spec2Model ----------------------------
(***************************************************************************)
(* A model of the MY_QUIC transport of src/MY_QUIC.py: one engine at the   *)
(* client address runs sendData towards the server address, one engine at  *)
(* the server address runs receiveData, and the UDP network between them   *)
(* is a set of datagrams in flight.  Datagrams are byte sequences, encoded *)
(* and decoded as struct.pack / struct.unpack do.  The variant of the      *)
(* engine in src/MyQUIC.py is modelled beside it: its receive_data as an   *)
(* action on the fields of an instance, its send_data as steps on a record *)
(* of fields and locals.                                                   *)
(***************************************************************************)
EXTENDS Integers, Sequences, FiniteSets, TLC

(***************************************************************************)
(* Program constants (src/MY_QUIC.py:9-18).                                *)
(***************************************************************************)
MAX_RECEIVE_BYTES == 65536
SHORT_PACKET == 3
DATA_FRAME == 5
ACK_FRAME == 6
MAX_RETRIES == 4
MAX_FRAMES_FOR_PACKET == 7
MAX_STREAM_SIZE == 2000
MIN_STREAM_SIZE == 1000
\* `if frames[0].offset > 50' (src/MY_QUIC.py:265)
STATS_MIN_OFFSET == 50

(***************************************************************************)
(* Bounds of the model.                                                    *)
(***************************************************************************)
\* streams of a mapping whose payload lengths and chunk sizes all vary
MaxVaried == 2
\* streams beyond MAX_FRAMES_FOR_PACKET in a mapping of short payloads
ExtraStreams == 1
\* the longest payload is MaxChunks * MIN_STREAM_SIZE + 1 bytes
MaxChunks == 2
\* the length of a short payload ("Hi there" is 8 bytes)
SmallLen == 8
\* streams of a mapping sent over a channel that loses datagrams
MaxLossy == 2
\* datagrams a third party sends
MaxInject == 1
\* datagrams handed to a receiver that is fed from the wire alone
MaxWire == 2
\* streams of a mapping whose transfer is followed to its end
MaxFair == 2
\* streams of a mapping sent with a retry loop of one attempt
MaxKnob == 2
\* streams of a mapping sent in several calls
MaxRepeat == 2
\* calls of sendData one after another
MaxCalls == 2

ClientAddr == "A"
ServerAddr == "S"
ForeignAddr == "B"
Endpoints == {ClientAddr, ServerAddr}

Min(a, b) == IF a <= b THEN a ELSE b

\* F applied to the value of e, e worked out once
Bind(e, F(_)) == CHOOSE r \in {F(v) : v \in {e}} : TRUE

(***************************************************************************)
(* Python's bytes: sequences of 0..255.  data[a:b] with 0 <= a, 0 <= b     *)
(* clamps to the length of data.                                           *)
(***************************************************************************)
Slice(data, a, b) ==
    LET hi == Min(b, Len(data))
    IN  IF a >= hi THEN << >> ELSE SubSeq(data, a + 1, hi)

(***************************************************************************)
(* struct.pack / struct.unpack, network byte order.                        *)
(***************************************************************************)
U32(n) ==
    << (n \div 16777216) % 256, (n \div 65536) % 256, (n \div 256) % 256, n % 256 >>

DecU32(b, p) ==
    b[p + 1] * 16777216 + b[p + 2] * 65536 + b[p + 3] * 256 + b[p + 4]

\* "Q": the model's numbers stay below 2^31, so the high word is 0
U64(n) == << 0, 0, 0, 0 >> \o U32(n)

DecU64(b, p) ==
    LET high == DecU32(b, p)
    IN  IF high = 0 THEN DecU32(b, p + 4)
        ELSE high * 65536 * 65536 + DecU32(b, p + 4)

HeaderSerialize(h) == << h.type % 256 >> \o U32(h.number)

HeaderDeserialize(data) == [type |-> data[1], number |-> DecU32(data, 1)]

FrameSerialize(f) ==
    U32(f.streamId) \o U32(f.type) \o U64(f.offset) \o U32(f.length)

FrameDeserialize(data) ==
    [streamId |-> DecU32(data, 0), type |-> DecU32(data, 4),
     offset |-> DecU64(data, 8), length |-> DecU32(data, 16)]

\* self.headerSize, self.frameSize
headerSize == Len(HeaderSerialize([type |-> SHORT_PACKET, number |-> 2]))
frameSize ==
    Len(FrameSerialize([streamId |-> 5, type |-> DATA_FRAME, offset |-> 6, length |-> 7]))

(***************************************************************************)
(* Python dicts as functions on the set of their keys.                     *)
(***************************************************************************)
EmptyDict == [k \in {} |-> 0]
Put(d, k, v) == [x \in (DOMAIN d) \cup {k} |-> IF x = k THEN v ELSE d[x]]

(***************************************************************************)
(* Connection and the registry MY_QUIC.connections, a list.                *)
(***************************************************************************)
Connection(address, connectionId) ==
    [address |-> address, id |-> connectionId, sentPackets |-> 0,
     receivedPackets |-> 0, streamBytesReceived |-> EmptyDict,
     streamBytesSent |-> EmptyDict]

HasConnection(conns, address) ==
    \E i \in 1..Len(conns) : conns[i].address = address

\* the position of the record getOrCreateConnection returns
ConnectionIndex(conns, address) ==
    IF HasConnection(conns, address)
    THEN CHOOSE i \in 1..Len(conns) :
            /\ conns[i].address = address
            /\ \A j \in 1..(i - 1) : conns[j].address # address
    ELSE Len(conns) + 1

\* a record is made for every call, known address or not
getOrCreateConnectionAlways(conns, address) ==
    Append(conns, Connection(address, Len(conns)))

\* the registry after getOrCreateConnection
getOrCreateConnection(conns, address) ==
    IF HasConnection(conns, address) THEN conns
    ELSE Append(conns, Connection(address, Len(conns)))

(***************************************************************************)
(* The inputs of sendData.                                                 *)
(***************************************************************************)
PayloadOf(streamId, n) == [i \in 1..n |-> (i + 16 * streamId) % 256]

\* a call of sendData: the mapping {1: ..., 2: ..., ...} with payloads of the
\* lengths lens, and the chunk sizes random.randint draws for its streams
Call(lens, sizes) ==
    [dataDict |-> [i \in 1..Len(lens) |->
                    [streamId |-> i, data |-> PayloadOf(i, lens[i])]],
     sizes |-> sizes]

\* every mapping of n streams with lengths in lens and chunk sizes in chunks
Calls(n, lens, chunks) ==
    {Call(l, c) : l \in [1..n -> lens], c \in [1..n -> chunks]}

LongLens == {k * MIN_STREAM_SIZE + 1 : k \in 1..MaxChunks}
ChunkSizes == {MIN_STREAM_SIZE, MAX_STREAM_SIZE}

\* up to MaxVaried streams, empty to long, with either extreme chunk size
VariedInputs ==
    UNION {Calls(n, {0, SmallLen, STATS_MIN_OFFSET + 1} \cup LongLens, ChunkSizes) :
            n \in 1..MaxVaried}

\* more streams than a packet holds, each with a short payload
ManyInputs ==
    UNION {Calls(n, {SmallLen}, {MIN_STREAM_SIZE}) :
            n \in (MAX_FRAMES_FOR_PACKET + 1)..(MAX_FRAMES_FOR_PACKET + ExtraStreams)}

\* mappings that fit one packet to the brim: as many streams as a packet
\* holds, and one stream of exactly the smallest chunk size
SingleInputs ==
    Calls(MAX_FRAMES_FOR_PACKET, {SmallLen}, {MIN_STREAM_SIZE})
        \cup Calls(1, {MIN_STREAM_SIZE}, ChunkSizes)

VARIABLES
    connections,     \* endpoint -> its registry (a list of Connection records)
    net,             \* datagrams in flight: [src, dst, data]
    pc,              \* where sendData stands
    address,         \* sendData's peer address
    dataDict,        \* sendData's mapping, in dict order
    streamSizes,     \* stream id -> chunk size
    frames,          \* the Frame objects, in dict order
    framesToSend,    \* stream ids of the frames still in framesToSend
    streamsToSend,   \* the streams selected in the current round
    packetNumber,    \* packetHeader.number of the current packet
    packetToSend,    \* the bytes of the current packet
    attempt,         \* the retry loop's attempts so far
    maxStreamTime,   \* 0, or 1 for the positive duration of a removed stream
    result,          \* what sendData returned
    printed,         \* what sendData printed
    lastRecv,        \* what the last receiveData call did
    delivered,       \* stream id -> payloads accumulated by the receiving caller
    txCount,         \* packet number -> transmissions by sendData
    firstTx,         \* packet number -> bytes of its first transmission
    acked,           \* the numbers of the ACK packets sendData has read
    ackTx,           \* every ACK datagram receiveData has sent: [dst, data]
    injected,        \* datagrams put on the wire by a third party so far
    myquic,          \* the fields of an instance of MyQUIC (src/MyQUIC.py)
    calls            \* the calls of sendData that have returned

sendVars ==
    << pc, address, dataDict, streamSizes, frames, framesToSend, streamsToSend,
       packetNumber, packetToSend, attempt, maxStreamTime, result, printed >>
recvVars == << lastRecv, delivered, ackTx >>
txVars == << txCount, firstTx, acked >>
vars == << connections, net, sendVars, recvVars, txVars, injected, myquic, calls >>

NoRecv ==
    [address |-> "none", objects |-> EmptyDict, log |-> << >>, ack |-> << >>,
     type |-> -1, number |-> -1, max_bytes |-> -1, raised |-> FALSE]

\* MyQUIC.__init__ (src/MyQUIC.py:109-118)
MyQUIC ==
    [sentPackets |-> 0, receivedPackets |-> 0,
     stream_bytes_received |-> EmptyDict, streamBytesSent |-> EmptyDict]

Init ==
    /\ connections = [e \in Endpoints |-> << >>]
    /\ net = {}
    /\ pc = "idle"
    /\ address = "none"
    /\ dataDict = << >>
    /\ streamSizes = EmptyDict
    /\ frames = << >>
    /\ framesToSend = << >>
    /\ streamsToSend = {}
    /\ packetNumber = -1
    /\ packetToSend = << >>
    /\ attempt = 0
    /\ maxStreamTime = 0
    /\ result = -1
    /\ printed = << >>
    /\ lastRecv = NoRecv
    /\ delivered = EmptyDict
    /\ txCount = EmptyDict
    /\ firstTx = EmptyDict
    /\ acked = {}
    /\ ackTx = {}
    /\ injected = 0
    /\ myquic = MyQUIC
    /\ calls = 0

\* the sender's connection record for its peer
SendConn == connections[ClientAddr][ConnectionIndex(connections[ClientAddr], address)]

Data(streamId) ==
    LET i == CHOOSE j \in 1..Len(dataDict) : dataDict[j].streamId = streamId
    IN  dataDict[i].data

FrameOf(streamId) ==
    LET i == CHOOSE j \in 1..Len(frames) : frames[j].streamId = streamId
    IN  frames[i]

SeqToSet(s) == {s[i] : i \in 1..Len(s)}

(***************************************************************************)
(* sendData (src/MY_QUIC.py:149-282).                                      *)
(***************************************************************************)

\* lines 153-173: the connection, one Frame per stream, the chunk sizes
SendDataBegin(inputs) ==
    /\ pc = "idle"
    /\ \E call \in inputs :
        LET d == call.dataDict
            sizes == call.sizes
            ids == {d[i].streamId : i \in 1..Len(d)}
            conns == getOrCreateConnection(connections[ClientAddr], ServerAddr)
            k == ConnectionIndex(conns, ServerAddr)
            sent == conns[k].streamBytesSent
            sent2 == [id \in (DOMAIN sent) \cup ids |->
                        IF id \in DOMAIN sent THEN sent[id] ELSE 0]
        IN  /\ connections' =
                [connections EXCEPT ![ClientAddr] =
                    [conns EXCEPT ![k].streamBytesSent = sent2]]
            /\ address' = ServerAddr
            /\ dataDict' = d
            /\ streamSizes' =
                [id \in ids |->
                    sizes[CHOOSE i \in 1..Len(d) : d[i].streamId = id]]
            /\ frames' =
                [i \in 1..Len(d) |->
                    [streamId |-> d[i].streamId, type |-> DATA_FRAME,
                     offset |-> 0, length |-> sizes[i]]]
            /\ framesToSend' = [i \in 1..Len(d) |-> d[i].streamId]
    /\ pc' = "loop"
    /\ UNCHANGED << net, streamsToSend, packetNumber, packetToSend, attempt,
                    maxStreamTime, result, printed, recvVars, txVars, injected,
                    myquic, calls >>

\* every active stream goes into the packet, however many there are
SelectAllStreams(active) == {SeqToSet(active)}

\* a packet takes one stream less than MAX_FRAMES_FOR_PACKET
SelectFewerStreams(active) ==
    IF Len(active) < MAX_FRAMES_FOR_PACKET
    THEN {SeqToSet(active)}
    ELSE {s \in SUBSET SeqToSet(active) :
            Cardinality(s) = MAX_FRAMES_FOR_PACKET - 1}

\* lines 183-187: the streams that may go into this packet
SelectStreams(active) ==
    IF Len(active) <= MAX_FRAMES_FOR_PACKET
    THEN {SeqToSet(active)}
    ELSE {s \in SUBSET SeqToSet(active) : Cardinality(s) = MAX_FRAMES_FOR_PACKET}

\* a whole chunk is announced, whatever is left of the payload
BytesToSendWholeChunk(streamId, offset) == streamSizes[streamId]

\* line 195
BytesToSend(streamId, offset) ==
    Min(streamSizes[streamId], Len(Data(streamId)) - offset)

SetFrame(fs, streamId, f) ==
    [i \in 1..Len(fs) |-> IF fs[i].streamId = streamId THEN f ELSE fs[i]]

Remove(s, x) == SelectSeq(s, LAMBDA y : y # x)

\* the slice taken from the start of the payload, whatever the cursor
StreamDataFromStart(streamId, offset, n) == Slice(Data(streamId), 0, n)

\* line 205
StreamData(streamId, offset, n) == Slice(Data(streamId), offset, offset + n)

\* the frame keeps the length it was created with, the chunk size
updateLengthKeeps(f, length) == f

\* Frame.updateLength (src/MY_QUIC.py:63-70)
updateLength(f, length) == [f EXCEPT !.length = length]

\* lines 190-208, over the copy framesToSend[:].  A negative bytesToSend makes
\* frame.serialize() raise struct.error.
RECURSIVE AssembleFrames(_, _, _)
AssembleFrames(todo, sel, st) ==
    IF todo = << >> \/ st.raised THEN st
    ELSE
        LET id == Head(todo)
            f == CHOOSE g \in SeqToSet(st.frames) : g.streamId = id
            n == BytesToSend(id, f.offset)
            f2 == updateLength(f, n)
        IN  IF id \notin sel THEN AssembleFrames(Tail(todo), sel, st)
            ELSE IF n = 0 THEN
                Bind([st EXCEPT !.framesToSend = Remove(@, id), !.removed = TRUE],
                     LAMBDA v : AssembleFrames(Tail(todo), sel, v))
            ELSE IF n < 0 THEN
                [st EXCEPT !.frames = SetFrame(@, id, f2), !.raised = TRUE]
            ELSE
                Bind([st EXCEPT
                        !.frames = SetFrame(@, id, f2),
                        !.payload = @ \o FrameSerialize(f2)
                                      \o StreamData(id, f.offset, n)],
                     LAMBDA v : AssembleFrames(Tail(todo), sel, v))

\* lines 214-216
MakePacket(number, payload) ==
    HeaderSerialize([type |-> SHORT_PACKET, number |-> number]) \o payload

\* lines 178-216: one pass of `while framesToSend' up to the retry loop
Assemble ==
    /\ pc = "loop"
    /\ IF framesToSend = << >>
       THEN /\ pc' = "finish"
            /\ UNCHANGED << connections, frames, framesToSend, streamsToSend,
                            packetNumber, packetToSend, attempt, maxStreamTime >>
       ELSE \E sel \in SelectStreams(framesToSend) :
            \E st \in {AssembleFrames(framesToSend, sel,
                        [frames |-> frames, framesToSend |-> framesToSend,
                         payload |-> << >>, raised |-> FALSE, removed |-> FALSE])} :
            LET k == ConnectionIndex(connections[ClientAddr], address)
            IN  /\ streamsToSend' = sel
                /\ frames' = st.frames
                /\ framesToSend' = st.framesToSend
                /\ maxStreamTime' = IF st.removed THEN 1 ELSE maxStreamTime
                /\ IF st.raised
                   THEN /\ pc' = "raised"
                        /\ UNCHANGED << connections, packetNumber, packetToSend,
                                        attempt >>
                   ELSE IF st.framesToSend = << >>
                   THEN /\ pc' = "finish"
                        /\ UNCHANGED << connections, packetNumber, packetToSend,
                                        attempt >>
                   ELSE /\ packetNumber' = SendConn.sentPackets
                        /\ connections' =
                            [connections EXCEPT ![ClientAddr][k].sentPackets = @ + 1]
                        /\ packetToSend' = MakePacket(SendConn.sentPackets, st.payload)
                        /\ attempt' = 0
                        /\ pc' = "transmit"
    /\ UNCHANGED << net, address, dataDict, streamSizes, result, printed,
                    recvVars, txVars, injected, myquic, calls >>

\* what sendto does to the network and to the record of transmissions
SendTo ==
    /\ net' = net \cup {[src |-> ClientAddr, dst |-> address, data |-> packetToSend]}
    /\ txCount' = Put(txCount, packetNumber,
                      IF packetNumber \in DOMAIN txCount
                      THEN txCount[packetNumber] + 1 ELSE 1)
    /\ firstTx' = IF packetNumber \in DOMAIN firstTx THEN firstTx
                  ELSE Put(firstTx, packetNumber, packetToSend)

\* the retry loop makes one attempt too many
TransmitOnceMore ==
    /\ pc = "transmit"
    /\ attempt <= MAX_RETRIES
    /\ SendTo
    /\ pc' = "await"
    /\ UNCHANGED << connections, address, dataDict, streamSizes, frames,
                    framesToSend, streamsToSend, packetNumber, packetToSend,
                    attempt, maxStreamTime, result, printed, recvVars, acked,
                    injected, myquic, calls >>

\* lines 224-225: self.socket.sendto(packetToSend, address), in a retry loop
\* of `retries' attempts
TransmitWithin(retries) ==
    /\ pc = "transmit"
    /\ attempt < retries
    /\ SendTo
    /\ pc' = "await"
    /\ UNCHANGED << connections, address, dataDict, streamSizes, frames,
                    framesToSend, streamsToSend, packetNumber, packetToSend,
                    attempt, maxStreamTime, result, printed, recvVars, acked,
                    injected, myquic, calls >>

\* for attempt in range(MAX_RETRIES)
Transmit == TransmitWithin(MAX_RETRIES)

\* a timeout does not use up an attempt
TimeoutUncounted ==
    /\ pc = "await"
    /\ pc' = "transmit"
    /\ UNCHANGED << connections, net, address, dataDict, streamSizes, frames,
                    framesToSend, streamsToSend, packetNumber, packetToSend,
                    attempt, maxStreamTime, result, printed, recvVars, txVars,
                    injected, myquic, calls >>

\* lines 231-232: socket.timeout
Timeout ==
    /\ pc = "await"
    /\ attempt' = attempt + 1
    /\ pc' = "transmit"
    /\ UNCHANGED << connections, net, address, dataDict, streamSizes, frames,
                    framesToSend, streamsToSend, packetNumber, packetToSend,
                    maxStreamTime, result, printed, recvVars, txVars, injected,
                    myquic, calls >>

\* any ACK packet is taken for the awaited one
AckMatchesAnyNumber(header, number) == header.type = ACK_FRAME

\* no packet is ever taken for the awaited ACK
AckMatchesNever(header, number) == FALSE

\* the number alone decides, whatever the type of the packet
AckMatchesNumberOnly(header, number) == header.number = number

\* line 239
AckMatches(header, number) ==
    ~(header.number # number \/ header.type # ACK_FRAME)

\* the cursor moves on by the length sent, whatever the ACK frame says
AckedOffsetAdvances(sentFrame, ackFrame) == sentFrame.offset + sentFrame.length

\* line 251
AckedOffset(sentFrame, ackFrame) == ackFrame.offset

\* lines 243-254
RECURSIVE ProcessAck(_, _)
ProcessAck(receivedData, st) ==
    IF Len(receivedData) - st.pointer < frameSize THEN st
    ELSE
        LET ackFrame == FrameDeserialize(
                            Slice(receivedData, st.pointer, st.pointer + frameSize))
            hit(f) == /\ ackFrame.type = ACK_FRAME
                      /\ f.streamId = ackFrame.streamId
                      /\ f.streamId \in SeqToSet(framesToSend)
        IN  Bind(
                [pointer |-> st.pointer + frameSize + ackFrame.length,
                 frames |->
                    [i \in 1..Len(st.frames) |->
                        IF hit(st.frames[i])
                        THEN [st.frames[i] EXCEPT
                                !.offset = AckedOffset(st.frames[i], ackFrame)]
                        ELSE st.frames[i]],
                 streamBytesSent |->
                    [id \in DOMAIN st.streamBytesSent |->
                        IF \E i \in 1..Len(st.frames) :
                              hit(st.frames[i]) /\ st.frames[i].streamId = id
                        THEN st.streamBytesSent[id] + FrameOf(id).length
                        ELSE st.streamBytesSent[id]]],
                LAMBDA v : ProcessAck(receivedData, v))

\* lines 230-256: recvfrom returns a datagram
RecvAck ==
    /\ pc = "await"
    /\ \E d \in net :
        /\ d.dst = ClientAddr
        /\ net' = net \ {d}
        /\ IF Len(d.data) < headerSize
           THEN \* struct.error from PacketHeader.deserialize
                /\ pc' = "raised"
                /\ UNCHANGED << connections, frames, attempt, acked >>
           ELSE \E st \in {ProcessAck(d.data,
                            [pointer |-> headerSize, frames |-> frames,
                             streamBytesSent |-> SendConn.streamBytesSent])} :
                LET receivedHeader == HeaderDeserialize(Slice(d.data, 0, headerSize))
                    k == ConnectionIndex(connections[ClientAddr], address)
                IN  /\ acked' = IF receivedHeader.type = ACK_FRAME
                                  THEN acked \cup {receivedHeader.number}
                                  ELSE acked
                    /\ IF AckMatches(receivedHeader, packetNumber)
                       THEN /\ frames' = st.frames
                            /\ connections' =
                                [connections EXCEPT
                                    ![ClientAddr][k].streamBytesSent = st.streamBytesSent]
                            /\ pc' = "loop"
                            /\ UNCHANGED attempt
                       ELSE /\ attempt' = attempt + 1
                            /\ pc' = "transmit"
                            /\ UNCHANGED << connections, frames >>
    /\ UNCHANGED << address, dataDict, streamSizes, framesToSend, streamsToSend,
                    packetNumber, packetToSend, maxStreamTime, result, printed,
                    recvVars, txCount, firstTx, injected, myquic, calls >>

\* lines 257-260: the retry loop of `retries' attempts ran out
ExhaustedAfter(retries) ==
    /\ pc = "transmit"
    /\ attempt >= retries
    /\ printed' = Append(printed, [text |-> "No response from receiver",
                                   address |-> address])
    /\ pc' = "finish"
    /\ UNCHANGED << connections, net, address, dataDict, streamSizes, frames,
                    framesToSend, streamsToSend, packetNumber, packetToSend,
                    attempt, maxStreamTime, result, recvVars, txVars, injected,
                    myquic, calls >>

Exhausted == ExhaustedAfter(MAX_RETRIES)

RECURSIVE SumOffsets(_)
SumOffsets(fs) ==
    IF fs = << >> THEN 0 ELSE Head(fs).offset + SumOffsets(Tail(fs))

\* lines 265-282: totalBytesSentData
TotalBytesSentData(fs) ==
    IF fs[1].offset > STATS_MIN_OFFSET THEN SumOffsets(fs) ELSE 0

\* line 279 divides by maxStreamTime
StatsRaise(fs, streamTime) ==
    fs[1].offset > STATS_MIN_OFFSET /\ streamTime = 0

\* lines 262-282
Finish ==
    /\ pc = "finish"
    /\ IF StatsRaise(frames, maxStreamTime)
       THEN \* ZeroDivisionError
            /\ pc' = "raised"
            /\ UNCHANGED result
       ELSE /\ result' = TotalBytesSentData(frames)
            /\ pc' = "done"
    /\ UNCHANGED << connections, net, address, dataDict, streamSizes, frames,
                    framesToSend, streamsToSend, packetNumber, packetToSend,
                    attempt, maxStreamTime, printed, recvVars, txVars, injected,
                    myquic, calls >>

\* sendData has returned (line 282) and its caller calls it again for the
\* same address, as src/MyServer.py:67-71 does; the caller at the other end
\* starts accumulating anew (src/MyClient.py:51)
SendDataAgain ==
    /\ pc = "done"
    /\ calls + 1 < MaxCalls
    /\ calls' = calls + 1
    /\ pc' = "idle"
    /\ streamsToSend' = {}
    /\ packetToSend' = << >>
    /\ attempt' = 0
    /\ maxStreamTime' = 0
    /\ result' = -1
    /\ delivered' = EmptyDict
    /\ UNCHANGED << connections, net, address, dataDict, streamSizes, frames,
                    framesToSend, packetNumber, printed, lastRecv, ackTx,
                    txVars, injected, myquic >>

(***************************************************************************)
(* receiveData (src/MY_QUIC.py:284-338).                                   *)
(***************************************************************************)

\* lines 313-314 read as a lookup: the cursor of a stream not yet seen is 0
Cursor(cursors, streamId) ==
    IF streamId \in DOMAIN cursors THEN cursors[streamId] ELSE 0

\* a frame that starts at or before the cursor is taken as in order
InOrderOrBehind(frame, cursor) == frame.offset <= cursor

\* line 317
InOrder(frame, cursor) == frame.offset = cursor

\* the cursor jumps to the end of whatever frame arrives
NextCursorJumps(frame, cursor) == frame.offset + frame.length

\* lines 317-322: the cursor after the frame
NextCursor(frame, cursor) ==
    IF InOrder(frame, cursor) THEN cursor + frame.length ELSE cursor

\* the ACK frame echoes the offset of the frame it answers
AckFrameEchoes(frame, cursor) ==
    [streamId |-> frame.streamId, type |-> ACK_FRAME,
     offset |-> IF frame.offset = cursor THEN frame.offset + frame.length
                ELSE frame.offset,
     length |-> 0]

\* lines 317-326: the frame, turned into its ACK frame
AckFrameFor(frame, cursor) ==
    [streamId |-> frame.streamId, type |-> ACK_FRAME,
     offset |-> IF InOrder(frame, cursor) THEN frame.offset + frame.length
                ELSE cursor,
     length |-> 0]

\* the payload is stored whatever the total
StoreObjectAlways(objects, frame, data, total, max_bytes) ==
    Put(objects, frame.streamId, data)

\* lines 330-331
StoreObject(objects, frame, data, total, max_bytes) ==
    IF total <= max_bytes THEN Put(objects, frame.streamId, data) ELSE objects

\* lines 303-331
RECURSIVE ProcessFrames(_, _, _)
ProcessFrames(received_data, max_bytes, st) ==
    IF Len(received_data) - st.pointer < frameSize THEN st
    ELSE
        LET frame == FrameDeserialize(
                        Slice(received_data, st.pointer, st.pointer + frameSize))
            p == st.pointer + frameSize
            data == Slice(received_data, p, p + frame.length)
            total == st.total_object_bytes + frame.length
            cursor == Cursor(st.cursors, frame.streamId)
            ackFrame == AckFrameFor(frame, cursor)
            objects == StoreObject(st.received_objects, frame, data, total, max_bytes)
        IN  Bind(
                [pointer |-> p + frame.length,
                 cursors |-> Put(st.cursors, frame.streamId, NextCursor(frame, cursor)),
                 ack_payload |-> st.ack_payload \o FrameSerialize(ackFrame),
                 received_objects |-> objects,
                 total_object_bytes |-> total,
                 log |-> Append(st.log,
                            [frame |-> frame, before |-> cursor,
                             after |-> NextCursor(frame, cursor),
                             ack |-> ackFrame,
                             got |-> Len(data),
                             total |-> total,
                             inMap |-> /\ frame.streamId \in DOMAIN objects
                                       /\ objects[frame.streamId] = data])],
                LAMBDA v : ProcessFrames(received_data, max_bytes, v))

\* the ACK packet takes the number after the one it answers
MakeAckNextNumber(number, ack_payload) ==
    HeaderSerialize([type |-> ACK_FRAME, number |-> number + 1]) \o ack_payload

\* lines 334-336
MakeAck(number, ack_payload) ==
    HeaderSerialize([type |-> ACK_FRAME, number |-> number]) \o ack_payload

\* src/MyClient.py:61-62: response_data[streamId] += data
Accumulate(acc, objects) ==
    [id \in (DOMAIN acc) \cup (DOMAIN objects) |->
        (IF id \in DOMAIN acc THEN acc[id] ELSE << >>)
            \o (IF id \in DOMAIN objects THEN objects[id] ELSE << >>)]

\* every datagram is taken for a data packet
IsDataPacketAlways(header) == TRUE

\* line 298
IsDataPacket(header) == header.type = SHORT_PACKET

\* one call of receiveData at the server, on a datagram in flight to it
ReceiveData(max_bytes) ==
    \E d \in net :
        /\ d.dst = ServerAddr
        /\ LET conns == getOrCreateConnection(connections[ServerAddr], d.src)
               k == ConnectionIndex(conns, d.src)
           IN  IF Len(d.data) < headerSize
               THEN \* struct.error from PacketHeader.deserialize
                    /\ connections' = [connections EXCEPT ![ServerAddr] = conns]
                    /\ net' = net \ {d}
                    /\ lastRecv' = [NoRecv EXCEPT !.address = d.src,
                                                  !.max_bytes = max_bytes,
                                                  !.raised = TRUE]
                    /\ UNCHANGED << delivered, ackTx >>
               ELSE
                \E header \in {HeaderDeserialize(Slice(d.data, 0, headerSize))} :
                \E st \in {ProcessFrames(d.data, max_bytes,
                            [pointer |-> headerSize,
                             cursors |-> conns[k].streamBytesReceived,
                             ack_payload |-> << >>,
                             received_objects |-> EmptyDict,
                             total_object_bytes |-> 0,
                             log |-> << >>])} :
                \E ack \in {MakeAck(header.number, st.ack_payload)} :
                    IF IsDataPacket(header)
                    THEN /\ connections' =
                            [connections EXCEPT ![ServerAddr] =
                                [conns EXCEPT
                                    ![k].receivedPackets = @ + 1,
                                    ![k].streamBytesReceived = st.cursors,
                                    ![k].sentPackets = @ + 1]]
                         /\ net' = (net \ {d})
                                \cup {[src |-> ServerAddr, dst |-> d.src, data |-> ack]}
                         /\ lastRecv' =
                                [address |-> d.src, objects |-> st.received_objects,
                                 log |-> st.log, ack |-> ack,
                                 type |-> header.type, number |-> header.number,
                                 max_bytes |-> max_bytes, raised |-> FALSE]
                         /\ delivered' = Accumulate(delivered, st.received_objects)
                         /\ ackTx' = ackTx \cup {[dst |-> d.src, data |-> ack]}
                    ELSE /\ connections' = [connections EXCEPT ![ServerAddr] = conns]
                         /\ net' = net \ {d}
                         /\ lastRecv' = [NoRecv EXCEPT !.address = d.src,
                                                       !.type = header.type,
                                                       !.number = header.number,
                                                       !.max_bytes = max_bytes]
                         /\ UNCHANGED << delivered, ackTx >>
        /\ UNCHANGED << sendVars, txVars, injected, myquic, calls >>

\* the caller of receiveData passes 65536 (src/MyServer.py:41)
Receive == ReceiveData(MAX_RECEIVE_BYTES)

(***************************************************************************)
(* The network.  A datagram that is never taken out of net is a lost one.  *)
(***************************************************************************)
\* the datagrams a third party puts on the wire for the server: a data packet
\* of one frame, from its own address or with the client's as the source
\* on stream 1, one byte longer than a short payload, at offset 0 or past it,
\* or at the start of stream 2, which the client never sends
InjectedFrames ==
    {[streamId |-> 1, type |-> DATA_FRAME, offset |-> off, length |-> SmallLen + 1] :
        off \in {0, SmallLen + 1}}
    \cup {[streamId |-> 2, type |-> DATA_FRAME, offset |-> 0, length |-> SmallLen + 1]}

InjectedData(f) ==
    MakePacket(0, FrameSerialize(f) \o PayloadOf(f.streamId + 1, f.length))

Inject ==
    /\ injected < MaxInject
    /\ \E src \in {ClientAddr, ForeignAddr} : \E f \in InjectedFrames :
        net' = net \cup {[src |-> src, dst |-> ServerAddr, data |-> InjectedData(f)]}
    /\ injected' = injected + 1
    /\ UNCHANGED << connections, sendVars, recvVars, txVars, myquic, calls >>

\* the datagrams that reach the client besides the ACKs of its packets: a
\* data packet from the server, numbered as the client's first packet, and
\* from a third party an ACK packet of another number
ForgedData ==
    {[src |-> ServerAddr,
      data |-> MakePacket(0, FrameSerialize([streamId |-> 1, type |-> DATA_FRAME,
                                             offset |-> 0, length |-> SmallLen])
                              \o PayloadOf(2, SmallLen))],
     [src |-> ForeignAddr,
      data |-> MakeAck(1, FrameSerialize([streamId |-> 1, type |-> ACK_FRAME,
                                          offset |-> SmallLen, length |-> 0]))]}

InjectClient ==
    /\ injected < MaxInject
    /\ \E f \in ForgedData :
        net' = net \cup {[src |-> f.src, dst |-> ClientAddr, data |-> f.data]}
    /\ injected' = injected + 1
    /\ UNCHANGED << connections, sendVars, recvVars, txVars, myquic, calls >>

\* what a third party sends the client while it waits: ACK packets with the
\* number of the client's first packet, for stream 1, with a cursor in the
\* middle of a short payload, at its end, and past it
SpoofedAcks ==
    {MakeAck(0, FrameSerialize([streamId |-> 1, type |-> ACK_FRAME,
                                offset |-> off, length |-> 0])) :
        off \in {SmallLen \div 2, SmallLen, SmallLen + 1}}

InjectAck ==
    /\ injected < MaxInject
    /\ \E data \in SpoofedAcks :
        net' = net \cup {[src |-> ForeignAddr, dst |-> ClientAddr, data |-> data]}
    /\ injected' = injected + 1
    /\ UNCHANGED << connections, sendVars, recvVars, txVars, myquic, calls >>

\* line 208: frame.serialize() + streamData
DataFrame(streamId, offset, length, data) ==
    FrameSerialize([streamId |-> streamId, type |-> DATA_FRAME,
                    offset |-> offset, length |-> length]) \o data

\* what recvfrom may hand receiveData: data packets of one frame, of two
\* streams, and of two frames of one stream; packets of another type; a
\* datagram shorter than a header; frames followed by fewer bytes than
\* their length field says
WireData ==
    {MakePacket(0, DataFrame(1, 0, SmallLen, PayloadOf(1, SmallLen))),
     MakePacket(1, DataFrame(1, 0, SmallLen, PayloadOf(1, SmallLen))
                    \o DataFrame(2, 0, SmallLen, PayloadOf(2, SmallLen))),
     MakePacket(2, DataFrame(1, 0, SmallLen, PayloadOf(1, SmallLen))
                    \o DataFrame(1, SmallLen, SmallLen, PayloadOf(3, SmallLen))),
     MakeAck(0, DataFrame(1, 0, SmallLen, PayloadOf(1, SmallLen))),
     HeaderSerialize([type |-> DATA_FRAME, number |-> 0])
        \o DataFrame(2, 0, SmallLen, PayloadOf(2, SmallLen)),
     << SHORT_PACKET, 0 >>,
     MakePacket(3, DataFrame(1, 0, SmallLen, PayloadOf(1, SmallLen - 1))),
     MakePacket(4, DataFrame(2, 0, SmallLen, << >>))}

\* the budgets a caller of receiveData passes
Budgets == {0, SmallLen, MAX_RECEIVE_BYTES}

InjectWire ==
    /\ injected < MaxWire
    /\ \E src \in {ClientAddr, ForeignAddr} : \E data \in WireData :
        net' = net \cup {[src |-> src, dst |-> ServerAddr, data |-> data]}
    /\ injected' = injected + 1
    /\ UNCHANGED << connections, sendVars, recvVars, txVars, myquic, calls >>

ReceiveBudget == \E max_bytes \in Budgets : ReceiveData(max_bytes)

(***************************************************************************)
(* The variant src/MyQUIC.py: an instance keeps one set of counters and    *)
(* cursors, whoever the peer is.                                           *)
(***************************************************************************)
\* the address an instance of MyQUIC is bound to (src/TestMyQUIC.py:14-15)
VariantAddr == "Q"

\* src/MyQUIC.py:252-305: one call of receive_data, on a datagram in flight
\* to the instance
receive_data(max_bytes) ==
    \E d \in net :
        /\ d.dst = VariantAddr
        /\ IF Len(d.data) < headerSize
           THEN \* struct.error from PacketHeader.deserialize
                /\ net' = net \ {d}
                /\ lastRecv' = [NoRecv EXCEPT !.address = d.src,
                                              !.max_bytes = max_bytes,
                                              !.raised = TRUE]
                /\ UNCHANGED myquic
           ELSE
            \E header \in {HeaderDeserialize(Slice(d.data, 0, headerSize))} :
            \E st \in {ProcessFrames(d.data, max_bytes,
                        [pointer |-> headerSize,
                         cursors |-> myquic.stream_bytes_received,
                         ack_payload |-> << >>,
                         received_objects |-> EmptyDict,
                         total_object_bytes |-> 0,
                         log |-> << >>])} :
            \E ack \in {MakeAck(header.number, st.ack_payload)} :
                IF header.type = SHORT_PACKET
                THEN /\ myquic' =
                        [myquic EXCEPT
                            !.receivedPackets = @ + 1,
                            !.stream_bytes_received = st.cursors,
                            !.sentPackets = @ + 1]
                     /\ net' = (net \ {d})
                            \cup {[src |-> VariantAddr, dst |-> d.src, data |-> ack]}
                     /\ lastRecv' =
                            [address |-> d.src, objects |-> st.received_objects,
                             log |-> st.log, ack |-> ack,
                             type |-> header.type, number |-> header.number,
                             max_bytes |-> max_bytes, raised |-> FALSE]
                ELSE /\ net' = net \ {d}
                     /\ lastRecv' = [NoRecv EXCEPT !.address = d.src,
                                                   !.type = header.type,
                                                   !.number = header.number,
                                                   !.max_bytes = max_bytes]
                     /\ UNCHANGED myquic
        /\ UNCHANGED << connections, sendVars, delivered, ackTx, txVars,
                        injected, calls >>

\* src/MyQUIC.py:123-250, send_data, as steps on a record q of the instance's
\* fields and the call's locals; data_dict and stream_sizes are dataDict
\* and streamSizes, the mapping and the random.randint draws of the call
send_data_begin(q, data_dict, stream_sizes) ==
    [q EXCEPT
        !.pc = "loop",
        !.frames =
            [i \in 1..Len(data_dict) |->
                [streamId |-> data_dict[i].streamId, type |-> DATA_FRAME,
                 offset |-> 0, length |-> stream_sizes[data_dict[i].streamId]]],
        !.frames_to_send = [i \in 1..Len(data_dict) |-> data_dict[i].streamId],
        !.streamBytesSent =
            [id \in (DOMAIN @) \cup {data_dict[i].streamId : i \in 1..Len(data_dict)}
                |-> IF id \in DOMAIN @ THEN @[id] ELSE 0],
        !.max_stream_time = 0]

\* lines 156-160, with the cap on the frames of a packet as a parameter
select(active, cap) ==
    IF Len(active) <= cap THEN {SeqToSet(active)}
    ELSE {s \in SUBSET SeqToSet(active) : Cardinality(s) = cap}

\* lines 151-189: one pass of `while frames_to_send' up to sendto, with
\* streams_to_send as drawn; lines 163-181 are the statements of
\* src/MY_QUIC.py:190-208
send_data_round(q, streams_to_send) ==
    IF q.frames_to_send = << >> THEN [q EXCEPT !.pc = "finish"]
    ELSE
        LET st == AssembleFrames(q.frames_to_send, streams_to_send,
                    [frames |-> q.frames, framesToSend |-> q.frames_to_send,
                     payload |-> << >>, raised |-> FALSE, removed |-> FALSE])
            q1 == [q EXCEPT
                    !.frames = st.frames,
                    !.frames_to_send = st.framesToSend,
                    !.max_stream_time = IF st.removed THEN 1 ELSE @]
        IN  IF st.raised THEN [q1 EXCEPT !.pc = "raised"]
            ELSE IF st.framesToSend = << >> THEN [q1 EXCEPT !.pc = "finish"]
            ELSE [q1 EXCEPT
                    !.packet_number = q.sentPackets,
                    !.sentPackets = @ + 1,
                    !.packet_to_send = MakePacket(q.sentPackets, st.payload),
                    !.pc = "transmit"]

\* line 197
send_data_sendto(q) == [q EXCEPT !.pc = "await"]

\* lines 203-205: socket.timeout
send_data_timeout(q) ==
    [q EXCEPT !.printed = @ + 1, !.pc = "finish"]

\* lines 217-228
RECURSIVE ack_frames(_, _, _)
ack_frames(received_data, frames_to_send, st) ==
    IF Len(received_data) - st.pointer < frameSize THEN st
    ELSE
        LET ack_frame == FrameDeserialize(
                            Slice(received_data, st.pointer, st.pointer + frameSize))
            hit(f) == /\ ack_frame.type = ACK_FRAME
                      /\ f.streamId \in SeqToSet(frames_to_send)
                      /\ f.streamId = ack_frame.streamId
        IN  Bind(
                [pointer |-> st.pointer + frameSize + ack_frame.length,
                 frames |->
                    [i \in 1..Len(st.frames) |->
                        IF hit(st.frames[i])
                        THEN [st.frames[i] EXCEPT !.offset = ack_frame.offset]
                        ELSE st.frames[i]],
                 streamBytesSent |->
                    [id \in DOMAIN st.streamBytesSent |->
                        IF \E i \in 1..Len(st.frames) :
                              hit(st.frames[i]) /\ st.frames[i].streamId = id
                        THEN LET f == CHOOSE g \in SeqToSet(st.frames) :
                                        g.streamId = id
                             IN  st.streamBytesSent[id] + f.length
                        ELSE st.streamBytesSent[id]]],
                LAMBDA v : ack_frames(received_data, frames_to_send, v))

\* lines 202-228: recvfrom returns received_data
send_data_recvfrom(q, received_data) ==
    IF Len(received_data) < headerSize
    THEN \* struct.error from PacketHeader.deserialize
         [q EXCEPT !.pc = "raised"]
    ELSE
        LET received_header ==
                HeaderDeserialize(Slice(received_data, 0, headerSize))
            st == ack_frames(received_data, q.frames_to_send,
                    [pointer |-> headerSize, frames |-> q.frames,
                     streamBytesSent |-> q.streamBytesSent])
        IN  IF \/ received_header.number # q.packet_number
               \/ received_header.type # ACK_FRAME
            THEN [q EXCEPT !.printed = @ + 1, !.pc = "finish"]
            ELSE [q EXCEPT !.frames = st.frames,
                           !.streamBytesSent = st.streamBytesSent,
                           !.pc = "loop"]

\* lines 230-250
send_data_return(q) ==
    IF q.frames[1].offset > STATS_MIN_OFFSET /\ q.max_stream_time = 0
    THEN \* ZeroDivisionError at line 247
         [q EXCEPT !.pc = "raised"]
    ELSE [q EXCEPT
            !.result = IF q.frames[1].offset > STATS_MIN_OFFSET
                       THEN SumOffsets(q.frames) ELSE 0,
            !.pc = "done"]

\* the datagrams two peers send the instance: each the first bytes of its
\* stream 1, and then the bytes that follow them
VariantData ==
    {MakePacket(0, DataFrame(1, 0, SmallLen, PayloadOf(1, SmallLen))),
     MakePacket(1, DataFrame(1, SmallLen, SmallLen, PayloadOf(3, SmallLen))),
     MakePacket(0, DataFrame(1, 0, SmallLen, PayloadOf(1, SmallLen))
                    \o DataFrame(2, 0, SmallLen, PayloadOf(2, SmallLen)))}

InjectVariant ==
    /\ injected < MaxWire
    /\ \E src \in {ClientAddr, ForeignAddr} : \E data \in VariantData :
        net' = net \cup {[src |-> src, dst |-> VariantAddr, data |-> data]}
    /\ injected' = injected + 1
    /\ UNCHANGED << connections, sendVars, recvVars, txVars, myquic, calls >>

ReceiveVariant == \E max_bytes \in Budgets : receive_data(max_bytes)

(***************************************************************************)
(* Specifications.                                                         *)
(***************************************************************************)
ReliableInputs == VariedInputs \cup ManyInputs \cup SingleInputs

LossyInputs ==
    UNION {Calls(n, {SmallLen, MIN_STREAM_SIZE + 1}, {MIN_STREAM_SIZE}) :
            n \in 1..MaxLossy}

\* {1: b"Hi there"} (src/TestMyQUIC.py:48)
OpenInputs == Calls(1, {SmallLen}, {MIN_STREAM_SIZE})

Sender(inputs) ==
    \/ SendDataBegin(inputs)
    \/ Assemble
    \/ Transmit
    \/ RecvAck
    \/ Finish

\* a channel that delivers every datagram, and in time
NextReliable ==
    \/ Sender(ReliableInputs)
    \/ Receive

SpecReliable == Init /\ [][NextReliable]_vars

\* a mapping of one stream more than a packet holds, and mappings of a few
\* streams that are empty, short, or one byte longer than a chunk
FairInputs ==
    Calls(MAX_FRAMES_FOR_PACKET + 1, {SmallLen}, {MIN_STREAM_SIZE}) \cup
    UNION {Calls(n, {0, SmallLen, MIN_STREAM_SIZE + 1}, {MIN_STREAM_SIZE}) :
            n \in 1..MaxFair}

NextFair ==
    \/ Sender(FairInputs)
    \/ Receive

\* the channel of SpecReliable; sendData runs on once it is called, and the
\* peer sits in its loop around receiveData (src/MyServer.py:40-41): a step
\* that can be taken is taken
SpecFair == Init /\ [][NextFair]_vars /\ WF_vars(NextFair)

\* datagrams may be lost or late
NextLossy ==
    \/ Sender(LossyInputs)
    \/ Timeout
    \/ Exhausted
    \/ Receive

SpecLossy == Init /\ [][NextLossy]_vars

\* and anyone may send the server a datagram
Next ==
    \/ Sender(OpenInputs)
    \/ Timeout
    \/ Exhausted
    \/ Receive
    \/ Inject
    \/ InjectClient

Spec == Init /\ [][Next]_vars

\* a channel with losses on which a third party sends the client ACK packets
NextSpoofed ==
    \/ Sender(OpenInputs)
    \/ Timeout
    \/ Exhausted
    \/ Receive
    \/ InjectAck

SpecSpoofed == Init /\ [][NextSpoofed]_vars

\* a receiver alone, handed whatever the wire brings
NextWire ==
    \/ InjectWire
    \/ ReceiveBudget

SpecWire == Init /\ [][NextWire]_vars

\* one stream, sent in one call and again in the next, with a payload
\* shorter, as long, or longer than a short one
RepeatInputs ==
    UNION {Calls(n, {SmallLen - 1, SmallLen, 2 * SmallLen + 1},
                    {MIN_STREAM_SIZE}) : n \in 1..MaxRepeat}

\* the channel of SpecReliable, with calls of sendData one after another
NextRepeat ==
    \/ Sender(RepeatInputs)
    \/ SendDataAgain
    \/ Receive

SpecRepeat == Init /\ [][NextRepeat]_vars

\* sendData with a retry loop of one attempt: the first timeout or
\* mismatch ends the call
KnobRetries == 1

KnobInputs ==
    Calls(MAX_FRAMES_FOR_PACKET + 1, {SmallLen}, {MIN_STREAM_SIZE}) \cup
    UNION {Calls(n, {0, STATS_MIN_OFFSET + 1, MIN_STREAM_SIZE + 1},
                    {MIN_STREAM_SIZE}) : n \in 1..MaxKnob}

NextKnob ==
    \/ SendDataBegin(KnobInputs)
    \/ Assemble
    \/ TransmitWithin(KnobRetries)
    \/ RecvAck
    \/ Timeout
    \/ ExhaustedAfter(KnobRetries)
    \/ Finish
    \/ Receive
    \/ InjectClient

SpecKnob == Init /\ [][NextKnob]_vars

\* two receivers, an instance of MY_QUIC and one of MyQUIC, each handed
\* datagrams of two peers
NextPeers ==
    \/ InjectWire
    \/ ReceiveBudget
    \/ InjectVariant
    \/ ReceiveVariant

SpecPeers == Init /\ [][NextPeers]_vars

(***************************************************************************)
(* What the properties below read off the state.                           *)
(***************************************************************************)
\* the frames of a datagram, found as receiveData finds them (lines 303-309)
RECURSIVE ParseFrames(_, _)
ParseFrames(data, pointer) ==
    IF Len(data) - pointer < frameSize THEN << >>
    ELSE LET f == FrameDeserialize(Slice(data, pointer, pointer + frameSize))
         IN  << f >> \o ParseFrames(data, pointer + frameSize + f.length)

FramesIn(data) == ParseFrames(data, headerSize)
HeaderOf(data) == HeaderDeserialize(Slice(data, 0, headerSize))

\* what the receiving caller has accumulated for a stream
Delivered(streamId) ==
    IF streamId \in DOMAIN delivered THEN delivered[streamId] ELSE << >>

\* the server's streamBytesReceived for (connection of addr, streamId)
ServerCursor(addr, streamId) ==
    LET conns == connections[ServerAddr]
    IN  IF HasConnection(conns, addr)
        THEN Cursor(conns[ConnectionIndex(conns, addr)].streamBytesReceived, streamId)
        ELSE 0

\* the server's record for addr, or a fresh one
ServerConn(addr) ==
    LET conns == connections[ServerAddr]
    IN  IF HasConnection(conns, addr)
        THEN conns[ConnectionIndex(conns, addr)]
        ELSE Connection(addr, Len(conns))

\* the payloads of a datagram's frames, cut as receiveData cuts them
RECURSIVE ParsePayloads(_, _)
ParsePayloads(data, pointer) ==
    IF Len(data) - pointer < frameSize THEN << >>
    ELSE LET f == FrameDeserialize(Slice(data, pointer, pointer + frameSize))
             p == pointer + frameSize
         IN  << Slice(data, p, p + f.length) >>
                \o ParsePayloads(data, p + f.length)

PayloadsIn(data) == ParsePayloads(data, headerSize)

PeerAddrs == {ClientAddr, ForeignAddr}
StreamIds == 1..(MAX_FRAMES_FOR_PACKET + ExtraStreams)

\* the retry loop of sendData ran out (line 259 printed)
RetriesExhausted == printed # << >>

(***************************************************************************)
(* C1.  Round trip: over a channel that delivers every datagram, once      *)
(* sendData has returned, what the peer's receiveData calls returned for a *)
(* stream, concatenated in arrival order, is the payload sent on it.       *)
(***************************************************************************)
C1_RoundTrip ==
    pc = "done" =>
        \A i \in 1..Len(dataDict) :
            Delivered(dataDict[i].streamId) = dataDict[i].data

\* two streams, each longer than any chunk, sent and received in full
C1_Witness ==
    /\ pc = "done"
    /\ Len(dataDict) = 2
    /\ \A i \in 1..Len(dataDict) :
        /\ Len(dataDict[i].data) > MAX_STREAM_SIZE
        /\ Delivered(dataDict[i].streamId) = dataDict[i].data

(***************************************************************************)
(* C2.  sendData returns the sum over the streams of their final offsets.  *)
(***************************************************************************)
C2_ReturnsSum == pc = "done" => result = SumOffsets(frames)

(***************************************************************************)
(* C3.  Receiver cursor: streamBytesReceived of a (connection, stream)     *)
(* never decreases; it changes only in a step that takes a datagram of     *)
(* that peer holding a frame of the stream at the recorded offset, and     *)
(* then by that frame's length; and a frame at the recorded offset always  *)
(* advances it so.                                                         *)
(***************************************************************************)
C3_CursorStep ==
    /\ \/ connections'[ServerAddr] = connections[ServerAddr]
       \/ \A a \in PeerAddrs, id \in StreamIds :
            LET before == ServerCursor(a, id)
                after == ServerCursor(a, id)'
            IN  /\ after >= before
                /\ after # before =>
                    \E d \in net \ net' :
                        /\ d.dst = ServerAddr /\ d.src = a
                        /\ \E f \in SeqToSet(FramesIn(d.data)) :
                            /\ f.streamId = id
                            /\ f.offset = before
                            /\ after = before + f.length
    /\ \A d \in net \ net' :
        d.dst = ServerAddr =>
            \A f \in SeqToSet(FramesIn(d.data)) :
                f.offset = ServerCursor(d.src, f.streamId) =>
                    ServerCursor(d.src, f.streamId)' =
                        ServerCursor(d.src, f.streamId) + f.length

C3_CursorMonotone == [][C3_CursorStep]_vars

\* a frame past the cursor left a cursor that had advanced where it was
C3_Witness ==
    \E i \in DOMAIN lastRecv.log :
        LET e == lastRecv.log[i]
        IN  /\ e.before > 0
            /\ e.frame.offset > e.before
            /\ ServerCursor(lastRecv.address, e.frame.streamId) = e.before

(***************************************************************************)
(* C4.  Go-back-N: a frame whose offset is not the stream's cursor leaves  *)
(* the cursor as it was, and the ACK frame sent for it carries the cursor  *)
(* from before the frame.                                                  *)
(***************************************************************************)
C4_GoBackN ==
    \A i \in DOMAIN lastRecv.log :
        LET e == lastRecv.log[i]
            acks == FramesIn(lastRecv.ack)
        IN  e.frame.offset # e.before =>
                /\ e.after = e.before
                /\ ServerCursor(lastRecv.address, e.frame.streamId) = e.before
                /\ i <= Len(acks)
                /\ acks[i].streamId = e.frame.streamId
                /\ acks[i].type = ACK_FRAME
                /\ acks[i].offset = e.before

\* a duplicate was just answered, and the answer to a gap is on the wire: the
\* third party's frame past the start of a new stream, answered with offset 0
C4_Witness ==
    /\ \E i \in DOMAIN lastRecv.log :
        /\ lastRecv.log[i].frame.offset < lastRecv.log[i].before
        /\ FramesIn(lastRecv.ack)[i].offset = lastRecv.log[i].before
    /\ \E d \in net :
        /\ d.dst = ForeignAddr
        /\ FramesIn(d.data) # << >>
        /\ FramesIn(d.data)[1].offset = 0

(***************************************************************************)
(* C5.  The payload of a frame whose offset is not the stream's cursor is  *)
(* not in the map receiveData returns.                                     *)
(***************************************************************************)
C5_OutOfOrderDropped ==
    \A i \in DOMAIN lastRecv.log :
        lastRecv.log[i].frame.offset # lastRecv.log[i].before =>
            ~lastRecv.log[i].inMap

(***************************************************************************)
(* C6.  Retry exhaustion: no packet is sent more than MAX_RETRIES times,   *)
(* and once the retries of a packet have run out sendData returns.         *)
(***************************************************************************)
C6_ExhaustionReturns ==
    /\ \A n \in DOMAIN txCount : txCount[n] <= MAX_RETRIES
    /\ RetriesExhausted => pc \in {"finish", "done"}

(***************************************************************************)
(* C7.  After retry exhaustion sendData sends no further data packet and   *)
(* hands its caller the total accepted so far.                             *)
(***************************************************************************)
C7_PartialProgressReported ==
    (RetriesExhausted /\ pc = "done") =>
        /\ \A n \in DOMAIN txCount : n <= packetNumber
        /\ result = SumOffsets(frames)

(***************************************************************************)
(* C8.  Retransmission: every datagram sendData has on the wire is, byte   *)
(* for byte, the first transmission of its packet number, and no packet    *)
(* number is transmitted more than MAX_RETRIES times.                      *)
(***************************************************************************)
C8_Retransmission ==
    /\ \A n \in DOMAIN txCount : txCount[n] <= MAX_RETRIES
    /\ \A d \in net :
        d.src = ClientAddr =>
            /\ HeaderOf(d.data).number \in DOMAIN firstTx
            /\ d.data = firstTx[HeaderOf(d.data).number]

\* the second packet of a call has gone out MAX_RETRIES times
C8_Witness ==
    \E d \in net :
        /\ d.src = ClientAddr
        /\ HeaderOf(d.data).number = 1
        /\ txCount[1] = MAX_RETRIES
        /\ d.data = firstTx[1]

(***************************************************************************)
(* C9.  Stop and wait: a packet number beyond the first is transmitted     *)
(* only after sendData has read the ACK packet of the number before it,    *)
(* so at most one transmitted packet is without its ACK.                   *)
(***************************************************************************)
C9_StopAndWait ==
    /\ \A n \in DOMAIN txCount : n > 0 => (n - 1) \in acked
    /\ Cardinality((DOMAIN txCount) \ acked) <= 1

\* the second packet is out, after the first was sent more than once
C9_Witness ==
    /\ 1 \in DOMAIN txCount
    /\ txCount[0] > 1
    /\ 0 \in acked
    /\ 1 \notin acked

(***************************************************************************)
(* C10.  Multiplexing cap: a data datagram of sendData holds at most       *)
(* MAX_FRAMES_FOR_PACKET frames, all of streams selected in its round.     *)
(***************************************************************************)
C10_FrameCap ==
    \A d \in net :
        d.src = ClientAddr =>
            /\ Len(FramesIn(d.data)) <= MAX_FRAMES_FOR_PACKET
            /\ \A i \in DOMAIN FramesIn(d.data) :
                FramesIn(d.data)[i].streamId \in streamsToSend

\* more active streams than the cap, and a datagram filled to the cap
C10_Witness ==
    /\ Len(framesToSend) > MAX_FRAMES_FOR_PACKET
    /\ \E d \in net :
        /\ d.src = ClientAddr
        /\ Len(FramesIn(d.data)) = MAX_FRAMES_FOR_PACKET

(***************************************************************************)
(* C11.  Zero-length no-op: no data packet of sendData holds a frame of a  *)
(* stream whose payload is empty, or a frame of length 0, and the cursor   *)
(* of such a stream stays 0; a call whose payloads are all empty transmits *)
(* no datagram, never waits for an ACK, and returns 0.                     *)
(***************************************************************************)
C11_EmptyNoOp ==
    /\ \A n \in DOMAIN firstTx :
        \A i \in DOMAIN FramesIn(firstTx[n]) :
            LET f == FramesIn(firstTx[n])[i]
            IN  /\ f.length > 0
                /\ Len(Data(f.streamId)) > 0
    /\ \A i \in 1..Len(dataDict) :
        dataDict[i].data = << >> => frames[i].offset = 0
    /\ (pc # "idle" /\ \A i \in 1..Len(dataDict) : dataDict[i].data = << >>) =>
        /\ pc \in {"loop", "finish", "done"}
        /\ net = {}
        /\ txCount = EmptyDict
        /\ pc = "done" => result = 0

\* {1: b"", 2: b""} has returned 0 with nothing sent
C11_Witness ==
    /\ pc = "done"
    /\ Len(dataDict) = 2
    /\ \A i \in 1..Len(dataDict) : dataDict[i].data = << >>
    /\ result = 0
    /\ txCount = EmptyDict

(***************************************************************************)
(* C12.  Packet numbers are never reused: two packets an endpoint has sent *)
(* to one peer under the same number are the same datagram, for the data   *)
(* packets of sendData and for the ACK packets of receiveData.             *)
(***************************************************************************)
C12_NumbersNeverReused ==
    /\ \A d1, d2 \in net :
        (/\ d1.src = ClientAddr /\ d2.src = ClientAddr /\ d1.dst = d2.dst
         /\ HeaderOf(d1.data).number = HeaderOf(d2.data).number) => d1 = d2
    /\ \A a1, a2 \in ackTx :
        (/\ a1.dst = a2.dst
         /\ HeaderOf(a1.data).number = HeaderOf(a2.data).number) => a1 = a2

(***************************************************************************)
(* C13.  ACK synthesis: a receiveData step that takes a SHORT_PACKET       *)
(* datagram puts one datagram on the wire, to the address the datagram     *)
(* came from: its header has the ACK type and the number of the datagram,  *)
(* and it holds one ACK frame per frame of the datagram, in order, each of *)
(* the frame's stream, of type ACK_FRAME and length 0, with the offset the *)
(* stream's cursor has after that frame.                                   *)
(***************************************************************************)
C13_AckSent ==
    \A d \in net \ net' :
        (/\ d.dst = ServerAddr
         /\ Len(d.data) >= headerSize
         /\ HeaderOf(d.data).type = SHORT_PACKET) =>
            LET a == [src |-> ServerAddr, dst |-> d.src, data |-> lastRecv'.ack]
            IN  /\ a \in net'
                /\ (net' \ net) \subseteq {a}
                /\ lastRecv'.address = d.src
                /\ lastRecv'.number = HeaderOf(d.data).number
                /\ Len(lastRecv'.log) = Len(FramesIn(d.data))

\* the ACK packet of the last call, against the frames the call went through
C13_AckShape ==
    lastRecv.type = SHORT_PACKET =>
        LET acks == FramesIn(lastRecv.ack)
            log == lastRecv.log
        IN  /\ HeaderOf(lastRecv.ack) =
                [type |-> ACK_FRAME, number |-> lastRecv.number]
            /\ Len(lastRecv.ack) = headerSize + frameSize * Len(log)
            /\ Len(acks) = Len(log)
            /\ \A i \in 1..Len(log) :
                /\ acks[i].streamId = log[i].frame.streamId
                /\ acks[i].type = ACK_FRAME
                /\ acks[i].length = 0
                /\ acks[i].offset = log[i].after
                /\ (\A j \in (i + 1)..Len(log) :
                        log[j].frame.streamId # log[i].frame.streamId)
                    => acks[i].offset =
                        ServerCursor(lastRecv.address, log[i].frame.streamId)

C13_AckSynthesis == []C13_AckShape /\ [][C13_AckSent]_vars

\* a packet of two frames, met a second time, was answered frame by frame
C13_Witness ==
    /\ lastRecv.type = SHORT_PACKET
    /\ Len(lastRecv.log) = 2
    /\ lastRecv.log[1].frame.offset # lastRecv.log[1].before
    /\ Len(FramesIn(lastRecv.ack)) = 2
    /\ [src |-> ServerAddr, dst |-> lastRecv.address, data |-> lastRecv.ack] \in net

(***************************************************************************)
(* C14.  Stale or foreign ACK: when sendData, awaiting an ACK, reads a     *)
(* datagram whose number is not the outstanding packet's or whose type is  *)
(* not the ACK type, no cursor of a frame and nothing in the registry      *)
(* (streamBytesSent included) changes, nothing is put on the wire, no       *)
(* exception is raised, and the attempt is counted as failed: sendData is  *)
(* back at the head of the retry loop with the same packet, which goes out *)
(* again while attempts remain.                                            *)
(***************************************************************************)
C14_StaleStep ==
    \A d \in net \ net' :
        (/\ d.dst = ClientAddr
         /\ pc = "await"
         /\ Len(d.data) >= headerSize
         /\ \/ HeaderOf(d.data).number # packetNumber
            \/ HeaderOf(d.data).type # ACK_FRAME) =>
            /\ frames' = frames
            /\ framesToSend' = framesToSend
            /\ connections' = connections
            /\ net' = net \ {d}
            /\ ackTx' = ackTx
            /\ pc' = "transmit"
            /\ attempt' = attempt + 1
            /\ packetNumber' = packetNumber
            /\ packetToSend' = packetToSend

C15_AckStep ==
    \A d \in net \ net' :
        (/\ d.dst = ClientAddr
         /\ pc = "await"
         /\ Len(d.data) >= headerSize
         /\ HeaderOf(d.data).number = packetNumber
         /\ HeaderOf(d.data).type = ACK_FRAME) =>
            LET acks == FramesIn(d.data)
                named(id) == {k \in 1..Len(acks) :
                                acks[k].streamId = id /\ acks[k].type = ACK_FRAME}
                last(id) == CHOOSE k \in named(id) : \A j \in named(id) : j <= k
            IN  /\ pc' = "loop"
                /\ framesToSend' = framesToSend
                /\ Len(frames') = Len(frames)
                /\ \A i \in 1..Len(frames) :
                    LET id == frames[i].streamId
                    IN  /\ frames'[i].streamId = id
                        /\ frames'[i].offset =
                            IF id \in SeqToSet(framesToSend) /\ named(id) # {}
                            THEN acks[last(id)].offset
                            ELSE frames[i].offset

C15_AckReconciliation == [][C15_AckStep]_vars

\* the ACK of a third party's frame on stream 2, numbered as the outstanding
\* packet, was read as its ACK: the cursor of stream 1 stayed where it was
C15_Witness ==
    /\ pc = "loop"
    /\ packetNumber \in acked
    /\ ServerCursor(ClientAddr, 2) > 0
    /\ ServerCursor(ClientAddr, 1) = 0
    /\ frames[1].offset = 0

(***************************************************************************)
(* C16.  Non-data packets: a receiveData step on a datagram whose header   *)
(* type is not SHORT_PACKET puts nothing on the wire, returns the sender's *)
(* address with an empty map, and leaves receivedPackets, sentPackets and  *)
(* every stream cursor of the sender's connection as they were.            *)
(***************************************************************************)
C16_NonDataStep ==
    \A d \in net \ net' :
        (/\ d.dst = ServerAddr
         /\ Len(d.data) >= headerSize
         /\ HeaderOf(d.data).type # SHORT_PACKET) =>
            /\ net' = net \ {d}
            /\ ackTx' = ackTx
            /\ lastRecv'.address = d.src
            /\ lastRecv'.objects = EmptyDict
            /\ ~lastRecv'.raised
            /\ delivered' = delivered
            /\ \A a \in PeerAddrs :
                /\ ServerConn(a)'.receivedPackets = ServerConn(a).receivedPackets
                /\ ServerConn(a)'.sentPackets = ServerConn(a).sentPackets
                /\ ServerConn(a)'.streamBytesReceived = ServerConn(a).streamBytesReceived

C16_NonDataIgnored == [][C16_NonDataStep]_vars

\* a packet of the ACK type was taken from a peer whose data had moved a
\* cursor before
C16_Witness ==
    /\ lastRecv.type = ACK_FRAME
    /\ lastRecv.objects = EmptyDict
    /\ ServerConn(lastRecv.address).receivedPackets = 1
    /\ ServerConn(lastRecv.address).sentPackets = 1
    /\ ServerCursor(lastRecv.address, 1) = SmallLen
    /\ net = {[src |-> ServerAddr, dst |-> lastRecv.address,
                data |-> MakeAck(0, FrameSerialize([streamId |-> 1, type |-> ACK_FRAME,
                                    offset |-> SmallLen, length |-> 0]))]}

(***************************************************************************)
(* C17.  Size budget: the cursors a receiveData step leaves and the ACK    *)
(* packet it sends are those of a call with an unlimited budget, so every  *)
(* frame is acknowledged and moves its cursor whatever max_bytes is; and   *)
(* the payload of a frame with which the lengths of the datagram's frames  *)
(* so far add up to more than max_bytes is not in the map returned.        *)
(***************************************************************************)
RECURSIVE RunningTotal(_, _)
RunningTotal(fs, i) == IF i = 0 THEN 0 ELSE fs[i].length + RunningTotal(fs, i - 1)

C17_BudgetStep ==
    \A d \in net \ net' :
        (/\ d.dst = ServerAddr
         /\ Len(d.data) >= headerSize
         /\ HeaderOf(d.data).type = SHORT_PACKET) =>
            LET fs == FramesIn(d.data)
                ps == PayloadsIn(d.data)
                unlimited == ProcessFrames(d.data, MAX_RECEIVE_BYTES,
                                [pointer |-> headerSize,
                                 cursors |-> ServerConn(d.src).streamBytesReceived,
                                 ack_payload |-> << >>,
                                 received_objects |-> EmptyDict,
                                 total_object_bytes |-> 0,
                                 log |-> << >>])
                ack == MakeAck(HeaderOf(d.data).number, unlimited.ack_payload)
                objects == lastRecv'.objects
            IN  /\ ServerConn(d.src)'.streamBytesReceived = unlimited.cursors
                /\ [src |-> ServerAddr, dst |-> d.src, data |-> ack] \in net'
                /\ Len(FramesIn(ack)) = Len(fs)
                /\ \A i \in 1..Len(fs) :
                    RunningTotal(fs, i) > lastRecv'.max_bytes =>
                        \/ fs[i].streamId \notin DOMAIN objects
                        \/ objects[fs[i].streamId] # ps[i]

C17_SizeBudget == [][C17_BudgetStep]_vars

\* of two frames the second went over the budget: it moved its cursor and
\* was acknowledged, and the map holds the first stream alone
C17_Witness ==
    /\ lastRecv.type = SHORT_PACKET
    /\ lastRecv.max_bytes = SmallLen
    /\ Len(lastRecv.log) = 2
    /\ lastRecv.log[1].total <= lastRecv.max_bytes
    /\ lastRecv.log[2].total > lastRecv.max_bytes
    /\ lastRecv.log[2].after = lastRecv.log[2].before + lastRecv.log[2].frame.length
    /\ FramesIn(lastRecv.ack)[2].offset = lastRecv.log[2].after
    /\ DOMAIN lastRecv.objects = {lastRecv.log[1].frame.streamId}
    /\ lastRecv.log[2].frame.streamId # lastRecv.log[1].frame.streamId

(***************************************************************************)
(* C18.  Truncated input is rejected: no receiveData call ends in an       *)
(* exception, and none goes through a frame that is followed by fewer      *)
(* bytes than its length field says (the datagram is refused before any    *)
(* cursor or counter moves).                                               *)
(***************************************************************************)
C18_TruncatedRejected ==
    /\ ~lastRecv.raised
    /\ \A i \in DOMAIN lastRecv.log :
        lastRecv.log[i].got < lastRecv.log[i].frame.length =>
            /\ lastRecv.log[i].after = lastRecv.log[i].before
            /\ ~lastRecv.log[i].inMap

(***************************************************************************)
(* C19.  Single-datagram delivery: over a channel that delivers every      *)
(* datagram, a mapping of at most MAX_FRAMES_FOR_PACKET streams, each with *)
(* a payload of 1 to MIN_STREAM_SIZE bytes, goes out as one data packet,   *)
(* sent once, and the one receiveData call at the peer returns the         *)
(* sender's address and the whole mapping.                                 *)
(***************************************************************************)
C19_FitsOnePacket ==
    /\ Len(dataDict) \in 1..MAX_FRAMES_FOR_PACKET
    /\ \A i \in 1..Len(dataDict) :
        Len(dataDict[i].data) \in 1..MIN_STREAM_SIZE

C19_SingleDatagram ==
    C19_FitsOnePacket =>
        /\ DOMAIN txCount \subseteq {0}
        /\ \A n \in DOMAIN txCount : txCount[n] = 1
        /\ ServerConn(ClientAddr).receivedPackets <= 1
        /\ lastRecv # NoRecv =>
            /\ lastRecv.address = ClientAddr
            /\ lastRecv.objects =
                [id \in {dataDict[i].streamId : i \in 1..Len(dataDict)} |-> Data(id)]
        /\ pc = "done" =>
            /\ DOMAIN txCount = {0}
            /\ ServerConn(ClientAddr).receivedPackets = 1
            /\ lastRecv # NoRecv

\* as many streams as a packet holds, delivered by one packet and one call
C19_Witness ==
    /\ pc = "done"
    /\ Len(dataDict) = MAX_FRAMES_FOR_PACKET
    /\ DOMAIN txCount = {0}
    /\ txCount[0] = 1
    /\ ServerConn(ClientAddr).receivedPackets = 1
    /\ DOMAIN lastRecv.objects = 1..MAX_FRAMES_FOR_PACKET

(***************************************************************************)
(* C20.  Full transfer: over a channel that delivers every datagram, with  *)
(* a peer that calls receiveData for each, a call of sendData on a fresh   *)
(* connection eventually returns, and then the cursor of every stream is   *)
(* the length of its payload, whichever streams each round selects.        *)
(***************************************************************************)
C20_Transferred ==
    /\ pc = "done"
    /\ \A i \in 1..Len(dataDict) : frames[i].offset = Len(dataDict[i].data)

C20_FullTransfer == (pc = "loop") ~> C20_Transferred

\* more streams than a packet holds, all transferred
C20_Witness ==
    /\ C20_Transferred
    /\ Len(dataDict) > MAX_FRAMES_FOR_PACKET
    /\ \A i \in 1..Len(dataDict) :
        /\ frames[i].offset > 0
        /\ ServerCursor(ClientAddr, dataDict[i].streamId) = frames[i].offset

(***************************************************************************)
(* C21.  No empty data packet: every data packet sendData transmits holds  *)
(* at least one frame; a round whose selected streams all have nothing     *)
(* left puts no datagram on the wire, also with more active streams than   *)
(* a packet holds.                                                         *)
(***************************************************************************)
C21_NoEmptyPacket ==
    \A n \in DOMAIN firstTx : FramesIn(firstTx[n]) # << >>

(***************************************************************************)
(* C22.  Frame construction: a round of sendData that starts with at most  *)
(* MAX_FRAMES_FOR_PACKET active streams and builds a packet puts into it,  *)
(* in the order of the active streams, one DATA_FRAME for each active      *)
(* stream whose cursor is short of its payload and nothing else; a frame   *)
(* has the stream's cursor as offset, min(chunk size, payload length -     *)
(* cursor) as length, and is followed by these bytes of the payload; a     *)
(* round in which no active stream has bytes left builds no packet; the    *)
(* chunk sizes do not change while the call runs.                          *)
(***************************************************************************)
\* the active streams that have bytes left, in the order of framesToSend
C22_Remaining ==
    SelectSeq(framesToSend, LAMBDA id : FrameOf(id).offset < Len(Data(id)))

C22_RoundStep ==
    /\ pc # "idle" => streamSizes' = streamSizes
    /\ (pc = "loop" /\ Len(framesToSend) <= MAX_FRAMES_FOR_PACKET) =>
        /\ (pc' = "transmit") = (C22_Remaining # << >>)
        /\ pc' = "transmit" =>
            LET fs == FramesIn(packetToSend')
                ps == PayloadsIn(packetToSend')
            IN  /\ HeaderOf(packetToSend').type = SHORT_PACKET
                /\ Len(fs) = Len(C22_Remaining)
                /\ \A i \in 1..Len(fs) :
                    LET id == C22_Remaining[i]
                        cursor == FrameOf(id).offset
                        n == Min(streamSizes[id], Len(Data(id)) - cursor)
                    IN  /\ fs[i] = [streamId |-> id, type |-> DATA_FRAME,
                                    offset |-> cursor, length |-> n]
                        /\ ps[i] = SubSeq(Data(id), cursor + 1, cursor + n)
                /\ Len(packetToSend') =
                    headerSize + Len(fs) * frameSize
                        + RunningTotal(fs, Len(fs))

C22_FrameConstruction == [][C22_RoundStep]_vars

\* the second packet of a call with two streams of different chunk sizes:
\* the short stream is complete and has no frame, the long one goes on at
\* its cursor with what is left of it
C22_Witness ==
    /\ pc = "transmit"
    /\ packetNumber = 1
    /\ Len(dataDict) = 2
    /\ streamSizes[1] # streamSizes[2]
    /\ Len(Data(1)) = SmallLen
    /\ framesToSend = << 2 >>
    /\ FramesIn(packetToSend) =
        << [streamId |-> 2, type |-> DATA_FRAME, offset |-> streamSizes[2],
            length |-> Len(Data(2)) - streamSizes[2]] >>
    /\ FrameOf(2).offset > 0
    /\ FrameOf(2).length < streamSizes[2]

(***************************************************************************)
(* C23.  Per-connection isolation: a receive step on a datagram from one   *)
(* address leaves what the receiver holds for every other address as it    *)
(* was: its packet counters and its cursor of every stream; this for a     *)
(* receiver of either class, MY_QUIC or MyQUIC.                            *)
(***************************************************************************)
\* what an instance of MyQUIC holds for a peer: MyQUIC has no registry, its
\* fields serve every address
VariantConn(addr) ==
    [address |-> addr, sentPackets |-> myquic.sentPackets,
     receivedPackets |-> myquic.receivedPackets,
     streamBytesReceived |-> myquic.stream_bytes_received,
     streamBytesSent |-> myquic.streamBytesSent]

C23_Same(c1, c2) ==
    /\ c1.sentPackets = c2.sentPackets
    /\ c1.receivedPackets = c2.receivedPackets
    /\ \A id \in StreamIds :
        Cursor(c1.streamBytesReceived, id) = Cursor(c2.streamBytesReceived, id)
    /\ \A id \in StreamIds :
        Cursor(c1.streamBytesSent, id) = Cursor(c2.streamBytesSent, id)

\* the registry of an instance of MY_QUIC
C23_RegistryStep ==
    \A a \in PeerAddrs :
        (lastRecv' # lastRecv /\ lastRecv'.address # a) =>
            C23_Same(ServerConn(a)', ServerConn(a))

\* the fields of an instance of MyQUIC
C23_VariantStep ==
    \A a \in PeerAddrs :
        (lastRecv' # lastRecv /\ lastRecv'.address # a) =>
            C23_Same(VariantConn(a)', VariantConn(a))

C23_Isolation == [][C23_RegistryStep /\ C23_VariantStep]_vars

(***************************************************************************)
(* C24.  Connection registry: the registry of an engine never holds two    *)
(* records of one address; a step of sendData or receiveData removes and   *)
(* reorders nothing and adds at most one record, at the end and for an     *)
(* address not yet known, made with zero counters and empty cursor maps    *)
(* before the step's own work on it; a step for a known address works on   *)
(* the record there is, its counters and cursors as they were.             *)
(***************************************************************************)
C24_OnePerAddress ==
    \A e \in Endpoints :
        \A i, j \in 1..Len(connections[e]) :
            connections[e][i].address = connections[e][j].address => i = j

\* the first entry of a receiveData log for each stream shows the cursor the
\* call found in the record
C24_Found(log, cursors) ==
    \A i \in 1..Len(log) :
        (\A j \in 1..(i - 1) : log[j].frame.streamId # log[i].frame.streamId)
            => log[i].before = Cursor(cursors, log[i].frame.streamId)

\* the record of a receiveData call, with the counters before the call
C24_Received(r, before) ==
    LET n == IF lastRecv'.type = SHORT_PACKET /\ ~lastRecv'.raised THEN 1 ELSE 0
    IN  /\ r.address = lastRecv'.address
        /\ r.receivedPackets = before.receivedPackets + n
        /\ r.sentPackets = before.sentPackets + n
        /\ r.streamBytesSent = before.streamBytesSent
        /\ C24_Found(lastRecv'.log, before.streamBytesReceived)
        /\ n = 0 => r.streamBytesReceived = before.streamBytesReceived

\* the record of the sendData call that begins, with the record before it
C24_Begun(r, before) ==
    /\ r.address = address'
    /\ r.sentPackets = before.sentPackets
    /\ r.receivedPackets = before.receivedPackets
    /\ r.streamBytesReceived = before.streamBytesReceived
    /\ \A id \in DOMAIN r.streamBytesSent :
        r.streamBytesSent[id] = Cursor(before.streamBytesSent, id)

C24_RegistryStep ==
    \A e \in Endpoints :
        LET old == connections[e]
            new == connections'[e]
            taken == \E d \in net : d.dst = ServerAddr /\ d \notin net'
        IN  /\ Len(new) \in {Len(old), Len(old) + 1}
            /\ \A i \in 1..Len(old) :
                /\ new[i].address = old[i].address
                /\ new[i].id = old[i].id
            /\ Len(new) = Len(old) + 1 =>
                /\ ~HasConnection(old, new[Len(new)].address)
                /\ new[Len(new)].id = Len(old)
                /\ \A i \in 1..Len(old) : new[i] = old[i]
                /\ IF e = ServerAddr
                   THEN C24_Received(new[Len(new)],
                                     Connection(lastRecv'.address, Len(old)))
                   ELSE C24_Begun(new[Len(new)], Connection(address', Len(old)))
            /\ (e = ServerAddr /\ taken /\ Len(new) = Len(old)) =>
                LET k == ConnectionIndex(old, lastRecv'.address)
                IN  /\ HasConnection(old, lastRecv'.address)
                    /\ C24_Received(new[k], old[k])
                    /\ \A i \in 1..Len(old) : i # k => new[i] = old[i]
            /\ (e = ClientAddr /\ pc = "idle" /\ pc' = "loop"
                    /\ Len(new) = Len(old)) =>
                LET k == ConnectionIndex(old, address')
                IN  /\ HasConnection(old, address')
                    /\ C24_Begun(new[k], old[k])

C24_Registry == []C24_OnePerAddress /\ [][C24_RegistryStep]_vars

\* the server's registry holds a record for each of two addresses, and the
\* one made first has been used again
C24_Witness ==
    /\ Len(connections[ServerAddr]) = 2
    /\ connections[ServerAddr][1].receivedPackets >= 2
    /\ connections[ServerAddr][2].receivedPackets >= 1
    /\ Len(connections[ClientAddr]) = 1

(***************************************************************************)
(* C25.  The retry loop as a knob: with one peer, sendData of MY_QUIC run  *)
(* with a retry loop of one attempt and send_data of MyQUIC run with the   *)
(* same cap on the frames of a packet do the same: from the same fields    *)
(* and locals, every step of the one (the call, a round with the same      *)
(* streams drawn, the sendto, a timeout, a datagram received, the return)  *)
(* leaves the fields and locals the step of the other leaves, puts the     *)
(* same datagram on the wire, and ends with the same result.               *)
(***************************************************************************)
\* the record of the sending engine for its peer, or a fresh one
C25_Conn ==
    LET conns == connections[ClientAddr]
    IN  IF HasConnection(conns, ServerAddr)
        THEN conns[ConnectionIndex(conns, ServerAddr)]
        ELSE Connection(ServerAddr, Len(conns))

\* the retry loop of one attempt is over, line 259 not yet reached
C25_LoopOver == pc = "transmit" /\ attempt >= KnobRetries

\* the state of sendData, read as the fields of a MyQUIC instance and the
\* locals of its send_data; the lines printed are counted, their texts
\* name the class
C25_View ==
    [pc |-> IF C25_LoopOver THEN "finish" ELSE pc,
     frames |-> frames,
     frames_to_send |-> framesToSend,
     max_stream_time |-> maxStreamTime,
     packet_number |-> packetNumber,
     packet_to_send |-> packetToSend,
     sentPackets |-> C25_Conn.sentPackets,
     streamBytesSent |-> C25_Conn.streamBytesSent,
     printed |-> Len(printed) + (IF C25_LoopOver THEN 1 ELSE 0),
     result |-> result]

C25_KnobStep ==
    LET q == C25_View
    IN  /\ (pc = "idle" /\ pc' = "loop") =>
            C25_View' = send_data_begin(q, dataDict', streamSizes')
        /\ (pc = "loop" /\ pc' # "loop") =>
            /\ framesToSend # << >> =>
                streamsToSend' \in select(q.frames_to_send, MAX_FRAMES_FOR_PACKET)
            /\ C25_View' = send_data_round(q, streamsToSend')
        /\ (pc = "transmit" /\ pc' = "await") =>
            /\ C25_View' = send_data_sendto(q)
            /\ net' = net \cup {[src |-> ClientAddr, dst |-> ServerAddr,
                                 data |-> q.packet_to_send]}
        /\ (pc = "await" /\ pc' # "await" /\ net' = net) =>
            C25_View' = send_data_timeout(q)
        /\ pc = "await" =>
            \A d \in net \ net' :
                d.dst = ClientAddr =>
                    C25_View' = send_data_recvfrom(q, d.data)
        /\ (pc = "transmit" /\ pc' = "finish") => C25_View' = q
        /\ (pc = "finish" /\ pc' # "finish") =>
            C25_View' = send_data_return(q)
        /\ pc' = pc => C25_View' = q

C25_RetryKnob == [][C25_KnobStep]_vars

\* a call has returned after its first packet was acknowledged and the wait
\* for the ACK of its second ended the transfer
C25_Witness ==
    /\ pc = "done"
    /\ Len(printed) = 1
    /\ packetNumber = 1
    /\ 0 \in acked
    /\ \A n \in DOMAIN txCount : txCount[n] = 1
    /\ \E i \in 1..Len(frames) :
        frames[i].offset \in 1..(Len(dataDict[i].data) - 1)

(***************************************************************************)
(* C26.  Every call delivers from byte 0: in every call of sendData, the   *)
(* first or a later one on the connection, the cursor of a stream never    *)
(* exceeds the length of its payload, so that bytesToSend is never         *)
(* negative and the call does not raise; and when the call has returned,   *)
(* what the peer's receiveData calls returned for the stream during the    *)
(* call, put together, is the payload.                                     *)
(***************************************************************************)
C26_FromByteZero ==
    /\ \A i \in 1..Len(frames) :
        /\ frames[i].offset <= Len(dataDict[i].data)
        /\ pc \in {"loop", "transmit", "await"} =>
            BytesToSend(frames[i].streamId, frames[i].offset) >= 0
    /\ pc # "raised"
    /\ pc = "done" =>
        \A i \in 1..Len(dataDict) :
            Delivered(dataDict[i].streamId) = dataDict[i].data

(***************************************************************************)
(* C27.  No duplicate delivery under loss: on a fresh connection, with     *)
(* datagrams lost or late and packets sent again, what the peer's          *)
(* receiveData calls returned for a stream, accumulated as the receiving   *)
(* caller does, is at every moment the first bytes of the payload sent,    *)
(* no range of it twice, and is the whole payload once sendData has        *)
(* returned with its retry loop never run out.                             *)
(***************************************************************************)
C27_NoDuplicateDelivery ==
    \A i \in 1..Len(dataDict) :
        LET got == Delivered(dataDict[i].streamId)
        IN  /\ Len(got) <= Len(dataDict[i].data)
            /\ got = SubSeq(dataDict[i].data, 1, Len(got))
            /\ (pc = "done" /\ ~RetriesExhausted) => got = dataDict[i].data

(***************************************************************************)
(* C28.  Sender and receiver cursors agree: on a fresh connection of one   *)
(* sender and one receiver, with datagrams lost, late or sent again, the   *)
(* sender's cursor of a stream never exceeds the receiver's                *)
(* streamBytesReceived of it; when sendData has processed a matching ACK   *)
(* the two are equal for every stream the ACK names; and a stream leaves   *)
(* the active streams only when the receiver's cursor is the length of its *)
(* payload.                                                                *)
(***************************************************************************)
C28_NeverAhead ==
    \A i \in 1..Len(frames) :
        frames[i].offset <= ServerCursor(ClientAddr, frames[i].streamId)

C28_AckStep ==
    /\ (pc = "await" /\ pc' = "loop") =>
        \A d \in net \ net' :
            d.dst = ClientAddr =>
                \A f \in SeqToSet(FramesIn(d.data)) :
                    /\ f.streamId \in SeqToSet(framesToSend)
                    /\ FrameOf(f.streamId)'.offset =
                            ServerCursor(ClientAddr, f.streamId)'
    /\ (pc = "loop") =>
        \A id \in SeqToSet(framesToSend) \ SeqToSet(framesToSend') :
            /\ ServerCursor(ClientAddr, id) = Len(Data(id))
            /\ FrameOf(id).offset = Len(Data(id))

C28_CursorsAgree == []C28_NeverAhead /\ [][C28_AckStep]_vars

\* a packet went out twice, its ACK has been processed, and a stream of
\* more than one chunk has left the active streams with both cursors at the
\* end of its payload
C28_Witness ==
    /\ pc \in {"finish", "done"}
    /\ ~RetriesExhausted
    /\ framesToSend = << >>
    /\ \E n \in DOMAIN txCount : txCount[n] >= 2
    /\ \E i \in 1..Len(frames) :
        /\ Len(dataDict[i].data) > MIN_STREAM_SIZE
        /\ frames[i].offset = Len(dataDict[i].data)
        /\ ServerCursor(ClientAddr, frames[i].streamId) = frames[i].offset

(***************************************************************************)
(* C29.  Only the addressed peer moves the cursors: when sendData, waiting *)
(* for the ACK of a packet sent to its peer, is handed a datagram that     *)
(* came from another address, no cursor of the transfer changes, the       *)
(* counters of the connection stay, and the wait for the packet's ACK is   *)
(* not over.                                                               *)
(***************************************************************************)
C29_PeerOnlyStep ==
    pc = "await" =>
        \A d \in net \ net' :
            (d.dst = ClientAddr /\ d.src # address) =>
                /\ frames' = frames
                /\ connections'[ClientAddr] = connections[ClientAddr]
                /\ pc' # "loop"

C29_PeerOnly == [][C29_PeerOnlyStep]_vars

=============================================================================
